---- MODULE Spec2Model ----
(***************************************************************************)
(* Credential gate of the shop backend (src/app.py): registration, login,  *)
(* and the token_required middleware in front of /api/cart.                *)
(*                                                                         *)
(* The user table, the clock, and the position of every in-flight          *)
(* /api/register request are the state.  A register request is two steps   *)
(* (the SELECT of line 68, then the INSERT+COMMIT of lines 73-74); login   *)
(* and the gated route perform one database read each and are one step.    *)
(* `last` records the request and response of the step just taken.         *)
(***************************************************************************)
EXTENDS Integers, FiniteSets, Sequences, TLC

\* ---------------------------------------------------------------- bounds
MaxTime == 2                \* the clock runs over 0..MaxTime ticks
MaxIssued == 2              \* distinct tokens handed out by login that are tracked

\* ------------------------------------------------------- program constants
TTL_HOURS == 24             \* datetime.timedelta(hours=24)
HoursPerTick == TTL_HOURS   \* one tick of the model's clock is 24 hours
TTL == TTL_HOURS \div HoursPerTick

SECRET_KEY == "your_secret_key"
OtherKey == "not_the_server_key"

None == "<None>"            \* a JSON field that is absent (dict.get -> None)
Usernames == {"alice", "bob"}
Passwords == {"pw1", "pw2"}
Salts == {"s1"}
UsernameInputs == Usernames \cup {"", None}
PasswordInputs == Passwords \cup {"", None}
Procs == {"w1", "w2"}       \* concurrently served register requests

NoRow == [none |-> TRUE]    \* Query.first() on an empty result
NoToken == [none |-> TRUE]  \* a response body without a token
NoHeader == [absent |-> TRUE]   \* request.headers.get('Authorization') -> None
EmptyHeader == [empty |-> TRUE] \* Authorization: (empty string)
Garbage == [garbage |-> TRUE]   \* a string that is not a JWT

MsgMissingFields == "Vui long nhap day du ten dang nhap va mat khau!"
MsgUsernameTaken == "Ten dang nhap da ton tai!"
MsgRegistered == "Dang ky thanh cong!"
MsgBadCredentials == "Ten dang nhap hoac mat khau khong dung!"
MsgTokenMissing == "Token is missing!"
MsgTokenInvalid == "Token is invalid!"
MsgUnhandled == "Internal Server Error"

VARIABLES users, registered, now, pc, args, issued, last

vars == <<users, registered, now, pc, args, issued, last>>

\* No response is waiting to be sent: the worker can take its next step.
Quiet == "status" \notin DOMAIN last

\* ------------------------------------------------------------ pure helpers

\* Python truthiness of a request field: None and '' are falsy.
Truthy(v) == v \notin {None, ""}

\* Query.first(): the row with the lowest rowid, or None.
First(S) == IF S = {} THEN NoRow ELSE CHOOSE r \in S : \A q \in S : r.id <= q.id

\* User.query.filter_by(username=...)
ByUsername(u) == {r \in users : r.username = u}

\* User.query.filter_by(id=...)
ById(i) == {r \in users : r.id = i}

\* INTEGER PRIMARY KEY without AUTOINCREMENT: max(rowid) + 1.
NextId == IF users = {} THEN 1
          ELSE (CHOOSE i \in {r.id : r \in users} : \A r \in users : r.id <= i) + 1

\* werkzeug: "sha256$<salt>$<hmac(salt, password)>"
Digest(salt, password) == <<"hmac-sha256", salt, password>>

generate_password_hash(password, salt) ==
    [method |-> "sha256", salt |-> salt, digest |-> Digest(salt, password)]

check_password_hash(pwhash, password) ==
    pwhash.digest = Digest(pwhash.salt, password)

\* PyJWT: header.payload.signature, HS256 = HMAC over header and payload.
HS256(key, payload) == <<"HS256", key, payload>>

JwtEncode(payload, key) ==
    [alg |-> "HS256", payload |-> payload, sig |-> HS256(key, payload)]

\* verify_exp switched off: no token ever expires.
ExpiredNever(exp, t, strict) == FALSE

\* jwt.decode raises ExpiredSignatureError once exp has passed.  At the
\* instant now = exp the outcome depends on the installed PyJWT release
\* (exp < now in 1.x, exp <= now in 2.x): `strict` is that choice.
Expired(exp, t, strict) == IF strict THEN exp <= t ELSE exp < t

\* verify_signature switched off.
SignatureUnchecked(token, key) == TRUE

SignatureValid(token, key) == token.sig = HS256(key, token.payload)

\* jwt.decode(token, key, algorithms=["HS256"])
JwtDecode(token, key, t, strict) ==
    IF token = Garbage
    THEN [ok |-> FALSE, error |-> "Not enough segments"]
    ELSE IF token.alg \notin {"HS256"}
    THEN [ok |-> FALSE, error |-> "The specified alg value is not allowed"]
    ELSE IF ~SignatureValid(token, key)
    THEN [ok |-> FALSE, error |-> "Signature verification failed"]
    ELSE IF "exp" \in DOMAIN token.payload /\ Expired(token.payload.exp, t, strict)
    THEN [ok |-> FALSE, error |-> "Signature has expired"]
    ELSE [ok |-> TRUE, payload |-> token.payload]

\* ------------------------------------------------------------- /api/register

\* Only the username is validated.
RegisterInvalidUsernameOnly(username, password) == ~Truthy(username)

\* if not username or not password
RegisterInvalid(username, password) == ~Truthy(username) \/ ~Truthy(password)

\* The existence check is skipped.
UsernameTakenSkipped(username) == FALSE

\* if User.query.filter_by(username=username).first()
UsernameTaken(username) == First(ByUsername(username)) # NoRow

\* The column is declared without unique=True.
UniqueViolationNever(username) == FALSE

\* username = db.Column(db.String(50), unique=True, ...): the INSERT raises
\* IntegrityError when a row with this username is already committed.
UniqueViolation(username) == \E r \in users : r.username = username

\* Lines 61-69: read the body, validate, look the username up.
RegisterLookup(p, username, password) ==
    /\ Quiet
    /\ pc[p] = "idle"
    /\ IF RegisterInvalid(username, password)
       THEN /\ last' = [action |-> "RegisterLookup", username |-> username,
                        password |-> password, status |-> 400,
                        message |-> MsgMissingFields]
            /\ UNCHANGED <<pc, args>>
       ELSE IF UsernameTaken(username)
       THEN /\ last' = [action |-> "RegisterLookup", username |-> username,
                        password |-> password, status |-> 409,
                        message |-> MsgUsernameTaken]
            /\ UNCHANGED <<pc, args>>
       ELSE /\ pc' = [pc EXCEPT ![p] = "checked"]
            /\ args' = [args EXCEPT ![p] = [username |-> username, password |-> password]]
            /\ last' = [action |-> "RegisterLookup", username |-> username,
                        password |-> password]
    /\ UNCHANGED <<users, registered, now, issued>>

\* Lines 71-76: hash, add, commit, answer 201.  An IntegrityError raised by
\* the commit is not caught in register(): Flask answers 500.
RegisterCommit(p, salt) ==
    /\ Quiet
    /\ pc[p] = "checked"
    /\ LET username == args[p].username
           password == args[p].password
           hashed_password == generate_password_hash(password, salt)
           new_user == [id |-> NextId, username |-> username,
                        password |-> hashed_password]
       IN  IF UniqueViolation(username)
           THEN /\ last' = [action |-> "RegisterCommit", username |-> username,
                            password |-> password, status |-> 500,
                            message |-> MsgUnhandled]
                /\ UNCHANGED <<users, registered>>
           ELSE /\ users' = users \cup {new_user}
                /\ registered' = registered \cup {<<username, password>>}
                /\ last' = [action |-> "RegisterCommit", username |-> username,
                            password |-> password, status |-> 201,
                            message |-> MsgRegistered]
    /\ pc' = [pc EXCEPT ![p] = "idle"]
    /\ args' = [args EXCEPT ![p] = [username |-> None, password |-> None]]
    /\ UNCHANGED <<now, issued>>

\* ---------------------------------------------------------------- /api/login

\* if not username or not password
LoginInvalid(username, password) == ~Truthy(username) \/ ~Truthy(password)

\* The password is not verified.
LoginRejectedUnknownOnly(user, password) == user = NoRow

\* if not user or not check_password_hash(user.password, password)
LoginRejected(user, password) ==
    user = NoRow \/ ~check_password_hash(user.password, password)

\* The 24 hours are not added to the expiration.
LoginTokenNoTtl(user, t) ==
    JwtEncode([user_id |-> user.id, exp |-> t], SECRET_KEY)

\* jwt.encode({'user_id': user.id, 'exp': utcnow() + timedelta(hours=24)}, ...)
LoginToken(user, t) ==
    JwtEncode([user_id |-> user.id, exp |-> t + TTL], SECRET_KEY)

\* History of the tokens login has returned (at most MaxIssued are kept).
Track(S, e) == IF Cardinality(S \cup {e}) <= MaxIssued THEN S \cup {e} ELSE S

Login(username, password) ==
    /\ Quiet
    /\ LET user == First(ByUsername(username))
       IN  IF LoginInvalid(username, password)
           THEN /\ last' = [action |-> "Login", username |-> username,
                            password |-> password, status |-> 400,
                            message |-> MsgMissingFields, token |-> NoToken]
                /\ UNCHANGED issued
           ELSE IF LoginRejected(user, password)
           THEN /\ last' = [action |-> "Login", username |-> username,
                            password |-> password, status |-> 401,
                            message |-> MsgBadCredentials, token |-> NoToken]
                /\ UNCHANGED issued
           ELSE /\ issued' = Track(issued, [tok |-> LoginToken(user, now),
                                            username |-> username, at |-> now])
                /\ last' = [action |-> "Login", username |-> username,
                            password |-> password, status |-> 200,
                            message |-> "", token |-> LoginToken(user, now)]
    /\ UNCHANGED <<users, registered, now, pc, args>>

\* ----------------------------------------------- token_required + /api/cart

\* The prefix is left in place, so 'Bearer <jwt>' is not a JWT.
StripBearerKept(header) == IF header.bearer THEN Garbage ELSE header.tok

\* token.replace('Bearer ', '')
StripBearer(header) == header.tok

\* The wrapper `decorated` of token_required around get_cart.
Decorated(header, t, strict) ==
    IF header \in {NoHeader, EmptyHeader}
    THEN [status |-> 401, message |-> MsgTokenMissing, error |-> "",
          handler |-> FALSE, current_user |-> NoRow]
    ELSE LET token == StripBearer(header)
             data == JwtDecode(token, SECRET_KEY, t, strict)
         IN  IF ~data.ok
             THEN [status |-> 401, message |-> MsgTokenInvalid,
                   error |-> data.error, handler |-> FALSE,
                   current_user |-> NoRow]
             ELSE IF "user_id" \notin DOMAIN data.payload
             THEN [status |-> 401, message |-> MsgTokenInvalid,
                   error |-> "'user_id'", handler |-> FALSE,
                   current_user |-> NoRow]
             ELSE [status |-> 200, message |-> "cart_items", error |-> "",
                   handler |-> TRUE,
                   current_user |-> First(ById(data.payload.user_id))]

Ids == 1 .. (Cardinality(Usernames) + 1)

\* Tokens a client can present besides the ones login returned to it.
CraftedTokens ==
    {Garbage}
    \cup {JwtEncode([user_id |-> i, exp |-> now + TTL], k) :
              i \in Ids, k \in {SECRET_KEY, OtherKey}}
    \cup {JwtEncode([exp |-> now + TTL], SECRET_KEY)}
    \cup {JwtEncode([user_id |-> 1], SECRET_KEY)}
    \cup {[alg |-> "none", payload |-> [user_id |-> 1, exp |-> now + TTL],
           sig |-> <<>>]}
    \cup {[e.tok EXCEPT !.payload.exp = @ + TTL] : e \in issued}

Headers ==
    {NoHeader, EmptyHeader}
    \cup {[bearer |-> b, tok |-> e.tok] : b \in BOOLEAN, e \in issued}
    \cup {[bearer |-> TRUE, tok |-> k] : k \in CraftedTokens}

Verify(header, strict) ==
    /\ Quiet
    /\ LET r == Decorated(header, now, strict)
       IN  last' = [action |-> "Verify", header |-> header,
                    status |-> r.status, message |-> r.message,
                    error |-> r.error, handler |-> r.handler,
                    current_user |-> r.current_user]
    /\ UNCHANGED <<users, registered, now, pc, args, issued>>

\* ------------------------------------------------------------------- clock

\* The view's return value is sent and the request context is torn down.
Respond ==
    /\ ~Quiet
    /\ last' = [action |-> "Respond"]
    /\ UNCHANGED <<users, registered, now, pc, args, issued>>

Tick ==
    /\ Quiet
    /\ now < MaxTime
    /\ now' = now + 1
    /\ last' = [action |-> "Tick"]
    /\ UNCHANGED <<users, registered, pc, args, issued>>

\* ------------------------------------------------------------ specification

Init ==
    /\ users = {}
    /\ registered = {}
    /\ now = 0
    /\ pc = [p \in Procs |-> "idle"]
    /\ args = [p \in Procs |-> [username |-> None, password |-> None]]
    /\ issued = {}
    /\ last = [action |-> "Init"]

Next ==
    \/ \E p \in Procs, u \in UsernameInputs, w \in PasswordInputs :
           RegisterLookup(p, u, w)
    \/ \E p \in Procs, s \in Salts : RegisterCommit(p, s)
    \/ \E u \in UsernameInputs, w \in PasswordInputs : Login(u, w)
    \/ \E h \in Headers, strict \in BOOLEAN : Verify(h, strict)
    \/ Respond
    \/ Tick

Spec == Init /\ [][Next]_vars

TypeOK ==
    /\ now \in 0 .. MaxTime
    /\ pc \in [Procs -> {"idle", "checked"}]
    /\ Cardinality(issued) <= MaxIssued
    /\ \A r \in users : r.id \in Ids /\ r.username \in Usernames

\* ------------------------------------------------------------------ claims

\* The HTTP status of a step's response; 0 while the request is still running.
Status(r) == IF "status" \in DOMAIN r THEN r.status ELSE 0

\* The step just taken was a request to the gated route presenting token k.
Presented(k) ==
    /\ last.action = "Verify"
    /\ "tok" \in DOMAIN last.header
    /\ last.header.tok = k

\* C1 as stated: every Register(u, p) that starts while a record for u is
\* stored answers 409 and leaves the user table as it was.
C1_RegisterExistingIsConflict ==
    [][(last'.action = "RegisterLookup" /\ ByUsername(last'.username) # {})
         => (Status(last') = 409 /\ users' = users)]_vars

\* C1 amended: a Register(u, p) with a non-empty p that starts while a record
\* for u is stored answers 409 (ConflictError) and leaves the user table,
\* the stored hash of u included, as it was.
C1_RegisterExistingNonEmptyIsConflict ==
    [][(/\ last'.action = "RegisterLookup"
        /\ ByUsername(last'.username) # {}
        /\ Truthy(last'.password))
         => (/\ Status(last') = 409
             /\ last'.message = MsgUsernameTaken
             /\ users' = users
             /\ pc' = pc)]_vars

\* C1 witness: a second registration of a stored username, with another
\* password than the stored one, has just been answered 409.
C1_Witness ==
    /\ last.action = "RegisterLookup"
    /\ Status(last) = 409
    /\ ByUsername(last.username) # {}
    /\ <<last.username, last.password>> \notin registered

\* C2: in every reachable state no two stored records share a username,
\* whatever the interleaving of the lookup and commit steps of concurrent
\* register requests.
C2_UniqueUsernames ==
    \A a \in users : \A b \in users : a.username = b.username => a = b

\* C2 witness: two requests for one new username both passed the lookup, one
\* committed, and the commit of the other has just been refused.
C2_Witness ==
    /\ last.action = "RegisterCommit"
    /\ Status(last) = 500
    /\ Cardinality(ByUsername(last.username)) = 1

\* C3: a Login(u, p) after a successful Register(u, p) answers 200 with a
\* token signed with the server key whose user_id is the id of the record of
\* u and whose exp is the login instant plus 24 hours.
C3_LoginAfterRegister ==
    (last.action = "Login" /\ <<last.username, last.password>> \in registered)
      => /\ Status(last) = 200
         /\ last.token # NoToken
         /\ last.token.alg = "HS256"
         /\ last.token.sig = HS256(SECRET_KEY, last.token.payload)
         /\ \E r \in users : /\ r.username = last.username
                             /\ last.token.payload.user_id = r.id
         /\ (last.token.payload.exp - now) * HoursPerTick = TTL_HOURS

\* C3 witness: with two users stored, the second one has just logged in at a
\* later instant than the start.
C3_Witness ==
    /\ last.action = "Login"
    /\ Status(last) = 200
    /\ <<last.username, last.password>> \in registered
    /\ Cardinality(users) = 2
    /\ last.token.payload.user_id = 2
    /\ now > 0

\* C4: a Login(u, p) with non-empty u and p answers 401 without a token when
\* no record for u is stored or p is not the password u registered with, and
\* the status and message are the same fixed pair in both cases.
C4_LoginFailureUniform ==
    (/\ last.action = "Login"
     /\ Truthy(last.username)
     /\ Truthy(last.password)
     /\ (ByUsername(last.username) = {}
           \/ <<last.username, last.password>> \notin registered))
      => /\ Status(last) = 401
         /\ last.message = MsgBadCredentials
         /\ last.token = NoToken

\* C4 witness: a login for a stored username with a password other than the
\* registered one has just been answered 401.
C4_Witness ==
    /\ last.action = "Login"
    /\ Status(last) = 401
    /\ ByUsername(last.username) # {}
    /\ Truthy(last.password)
    /\ <<last.username, last.password>> \notin registered

\* C5: a token login returned for u, presented before its expiration with or
\* without the 'Bearer ' prefix, is accepted and get_cart receives the
\* record of u as current_user.
C5_IssuedTokenAccepted ==
    \A e \in issued :
        (Presented(e.tok) /\ now < e.tok.payload.exp)
          => /\ Status(last) = 200
             /\ last.handler
             /\ last.current_user \in users
             /\ last.current_user.username = e.username

\* C5 witness: with two users stored, a token of the second one has just
\* been accepted with the prefix in place.
C5_Witness ==
    \E e \in issued :
        /\ Presented(e.tok)
        /\ last.header.bearer
        /\ Status(last) = 200
        /\ Cardinality(users) = 2
        /\ last.current_user.id = 2

\* C6: a token login issued at instant t carries the expiration t + 24 hours
\* for good, and presented at any instant after t + 24 hours it is answered
\* 401 without get_cart being run.
C6_ExpiredTokenRejected ==
    \A e \in issued :
        /\ (e.tok.payload.exp - e.at) * HoursPerTick = TTL_HOURS
        /\ (Presented(e.tok) /\ (now - e.at) * HoursPerTick > TTL_HOURS)
             => (Status(last) = 401 /\ ~last.handler)

\* C6 witness: an issued token has just been refused as expired.
C6_Witness ==
    \E e \in issued :
        /\ Presented(e.tok)
        /\ (now - e.at) * HoursPerTick > TTL_HOURS
        /\ Status(last) = 401
        /\ last.error = "Signature has expired"

\* C7: get_cart is never run with an absent (None) current_user: a correctly
\* signed, unexpired token whose user_id matches no record is answered 401.
C7_StaleIdentityRejected ==
    (/\ last.action = "Verify"
     /\ "tok" \in DOMAIN last.header
     /\ last.header.tok # Garbage
     /\ last.header.tok.alg = "HS256"
     /\ last.header.tok.sig = HS256(SECRET_KEY, last.header.tok.payload)
     /\ DOMAIN last.header.tok.payload = {"user_id", "exp"}
     /\ now < last.header.tok.payload.exp
     /\ ById(last.header.tok.payload.user_id) = {})
      => (Status(last) = 401 /\ ~last.handler)

\* C8: a request to the gated route ends either authenticated (200, get_cart
\* run) or rejected (401, get_cart not run); get_cart is run only if the
\* header carried a token signed with the server key whose expiration has
\* not passed; a missing header or a token not signed with the server key is
\* answered 401 without running get_cart.
C8_GateDecision ==
    last.action = "Verify"
      => LET h == last.header
             supplied == "tok" \in DOMAIN h
             signed == /\ supplied
                       /\ h.tok # Garbage
                       /\ h.tok.alg = "HS256"
                       /\ h.tok.sig = HS256(SECRET_KEY, h.tok.payload)
             unexpired == /\ signed
                          /\ ("exp" \in DOMAIN h.tok.payload
                                => now <= h.tok.payload.exp)
         IN  /\ Status(last) \in {200, 401}
             /\ last.handler <=> Status(last) = 200
             /\ last.handler => (supplied /\ signed /\ unexpired)
             /\ ~signed => (Status(last) = 401 /\ ~last.handler)

\* C8 witness: a token signed with another key than the server's has just
\* been answered 401.
C8_Witness ==
    /\ last.action = "Verify"
    /\ "tok" \in DOMAIN last.header
    /\ last.header.tok # Garbage
    /\ last.header.tok.alg = "HS256"
    /\ last.header.tok.sig = HS256(OtherKey, last.header.tok.payload)
    /\ Status(last) = 401
    /\ ~last.handler

\* C9: a Register(u, p) with u or p empty or missing answers 400 and stores
\* nothing, also when a record for u is stored (validation comes before the
\* conflict check).
C9_RegisterMissingFieldIs400 ==
    [][(/\ last'.action = "RegisterLookup"
        /\ (~Truthy(last'.username) \/ ~Truthy(last'.password)))
         => (/\ Status(last') = 400
             /\ last'.message = MsgMissingFields
             /\ users' = users
             /\ pc' = pc)]_vars

\* C9 witness: a registration of a stored username with an empty password
\* has just been answered 400.
C9_Witness ==
    /\ last.action = "RegisterLookup"
    /\ Status(last) = 400
    /\ ByUsername(last.username) # {}
    /\ last.password = ""

\* C10: every register request ends with 201, 400 or 409; the loser of a
\* race for one new username is answered 409, not an unhandled error.
C10_RegisterOutcomeFixed ==
    (last.action \in {"RegisterLookup", "RegisterCommit"}
       /\ "status" \in DOMAIN last)
      => last.status \in {201, 400, 409}

====
